---- MODULE Spec2Model ----
(***************************************************************************)
(* A model of src/pinterest_to_csv.py: the sanitizers, the typed value     *)
(* parsers, the label table and the module-level parse loop that segments  *)
(* the input lines into records.                                           *)
(*                                                                         *)
(* A Python str is a sequence of characters; a character is a one-letter   *)
(* TLA+ string, or a token "U+XXXX" naming a non-ASCII code point.  The    *)
(* Python value None is the one-element sequence <<"None">>, which is no   *)
(* str because "None" is no character.                                     *)
(***************************************************************************)
EXTENDS Integers, Sequences, FiniteSets, TLC

\* lines:   the input lines that the parse loop has processed so far
\* heap:    the dict objects, by reference (a reference is an index of heap)
\* current: the reference of the Pending Record
\* records: the output, a list of references
\* pc:      "loop" and "done" for the script; "call" and the name of the
\*          function that returned for a sanitizer or parser called on its own
\* arg, ret, prev: the argument of such a call, its result and the result of
\*          the call before it
VARIABLES lines, heap, current, records, pc, arg, ret, prev

vars == <<lines, heap, current, records, pc, arg, ret, prev>>

loopVars == <<lines, heap, current, records>>

fnVars == <<arg, ret, prev>>

----------------------------------------------------------------------------
(* Characters *)

None == <<"None">>

\* code points 32..95
Ascii ==
  <<" ","!","\"","#","$","%","&","'","(",")","*","+",",","-",".","/",
    "0","1","2","3","4","5","6","7","8","9",":",";","<","=",">","?","@",
    "A","B","C","D","E","F","G","H","I","J","K","L","M","N","O","P","Q",
    "R","S","T","U","V","W","X","Y","Z","[","\\","]","^","_">>

\* code points 97..126
AsciiHigh ==
  <<"a","b","c","d","e","f","g","h","i","j","k","l","m","n","o","p","q",
    "r","s","t","u","v","w","x","y","z","{","|","}","~">>

\* The non-ASCII characters of the model: thumbs up, zero width joiner,
\* snowman, mahjong red dragon, skin tone modifier, copyright sign.
NonAscii == {"U+1F44D", "U+200D", "U+2603", "U+1F004", "U+1F3FD", "U+00A9"}

Chars ==
  {Ascii[i] : i \in 1..Len(Ascii)} \cup {AsciiHigh[i] : i \in 1..Len(AsciiHigh)}
    \cup NonAscii \cup {"\t"}

OrdTable ==
  [ch \in Chars |->
     CASE ch = "\t"      -> 9
       [] ch = "U+00A9"  -> 169
       [] ch = "U+200D"  -> 8205
       [] ch = "U+2603"  -> 9731
       [] ch = "U+1F004" -> 126980
       [] ch = "U+1F3FD" -> 127997
       [] ch = "U+1F44D" -> 128077
       [] \E i \in 1..Len(Ascii) : Ascii[i] = ch
                         -> 31 + (CHOOSE i \in 1..Len(Ascii) : Ascii[i] = ch)
       [] OTHER          -> 96 + (CHOOSE i \in 1..Len(AsciiHigh) : AsciiHigh[i] = ch)]

ord(ch) == OrdTable[ch]

\* unicodedata.category, for the characters of the model
category(ch) ==
  CASE ch \in {"U+1F44D", "U+2603", "U+1F004", "U+00A9"} -> "So"
    [] ch = "U+1F3FD" -> "Sk"
    [] ch = "U+200D"  -> "Cf"
    [] ch = "\t"      -> "Cc"
    [] ch = " "       -> "Zs"
    [] OTHER          -> "ascii"

\* str.isspace / the regex class \s, for the characters of the model
IsSpace(ch) == ch \in {" ", "\t"}

LowerTable ==
  [ch \in Chars |->
     IF ord(ch) >= 65 /\ ord(ch) <= 90
       THEN CHOOSE c \in Chars : ord(c) = ord(ch) + 32
       ELSE ch]

\* str.lower
lower(s) == [i \in 1..Len(s) |-> LowerTable[s[i]]]

\* str.strip
strip(s) ==
  LET keep == {i \in 1..Len(s) : ~IsSpace(s[i])}
  IN  IF keep = {} THEN <<>>
      ELSE SubSeq(s, CHOOSE i \in keep : \A j \in keep : i <= j,
                     CHOOSE i \in keep : \A j \in keep : i >= j)

\* re.sub(r"\s+", " ", s)
CollapseSpaces(s) ==
  LET F[i \in 0..Len(s)] ==
        IF i = 0 THEN <<>>
        ELSE IF IsSpace(s[i])
          THEN IF i > 1 /\ IsSpace(s[i-1]) THEN F[i-1] ELSE Append(F[i-1], " ")
          ELSE Append(F[i-1], s[i])
  IN  F[Len(s)]

----------------------------------------------------------------------------
(* Emoji handling *)

emoji_blocks ==
  << <<128512, 128591>>,   \* 0x1F600..0x1F64F emoticons
     <<127744, 128511>>,   \* 0x1F300..0x1F5FF misc symbols and pictographs
     <<128640, 128767>>,   \* 0x1F680..0x1F6FF transport and map
     <<129280, 129535>>,   \* 0x1F900..0x1F9FF supplemental symbols
     <<129536, 129791>>,   \* 0x1FA00..0x1FAFF symbols extended-A
     <<127462, 127487>>,   \* 0x1F1E6..0x1F1FF regional indicators
     <<9728, 9983>>,       \* 0x2600..0x26FF misc symbols
     <<9984, 10175>>  >>   \* 0x2700..0x27BF dingbats

is_emoji_char(ch) ==
  LET cp == ord(ch)
  IN  \/ cp \in {8205, 65038, 65039}
      \/ (127995 <= cp /\ cp <= 127999)
      \/ \E b \in 1..Len(emoji_blocks) :
            emoji_blocks[b][1] <= cp /\ cp <= emoji_blocks[b][2]
      \/ (category(ch) = "So" /\ cp >= 126976)

replace_emojis_with_space(s) ==
  IF s = None \/ s = <<>> THEN <<>>
  ELSE LET out == [i \in 1..Len(s) |-> IF is_emoji_char(s[i]) THEN " " ELSE s[i]]
       IN  strip(CollapseSpaces(out))

----------------------------------------------------------------------------
(* Sanitizers *)

NA == <<"N", "A">>

no_data == <<"n", "o", " ", "d", "a", "t", "a">>

\* re.sub(r"[,\s]+$", "", s)
strip_trailing_commas(s) ==
  IF s = None THEN <<>>
  ELSE LET keep == {i \in 1..Len(s) : ~(s[i] = "," \/ IsSpace(s[i]))}
       IN  IF keep = {} THEN <<>>
           ELSE SubSeq(s, 1, CHOOSE i \in keep : \A j \in keep : i >= j)

\* a mutant of remove_all_commas: only the first comma is removed
remove_all_commas_first(s) ==
  IF s = None THEN <<>>
  ELSE IF \E i \in 1..Len(s) : s[i] = ","
    THEN LET c == CHOOSE i \in 1..Len(s) : s[i] = "," /\ \A j \in 1..(i-1) : s[j] # ","
         IN  SubSeq(s, 1, c - 1) \o SubSeq(s, c + 1, Len(s))
    ELSE s

remove_all_commas(s) ==
  IF s = None THEN <<>>
  ELSE SelectSeq(s, LAMBDA ch : ch # ",")

to_na_if_empty(s) ==
  IF s = None THEN NA
  ELSE IF strip(s) = <<>> THEN NA ELSE strip(s)

sanitize_value(s) ==
  IF s = None THEN NA
  ELSE LET s1 == replace_emojis_with_space(s)
           s2 == strip_trailing_commas(strip(s1))
       IN  IF lower(s2) = no_data THEN NA
           ELSE to_na_if_empty(strip(CollapseSpaces(remove_all_commas(s2))))

\* a mutant of parse_bool: the comparison keeps the casing
parse_bool_cased(s) ==
  IF s = None THEN NA
  ELSE LET s1 == replace_emojis_with_space(s)
           s2 == strip(strip_trailing_commas(s1))
           s3 == remove_all_commas(s2)
       IN  IF s3 = <<"t","r","u","e">> THEN <<"t","r","u","e">>
           ELSE IF s3 = <<"f","a","l","s","e">> THEN <<"f","a","l","s","e">>
           ELSE NA

parse_bool(s) ==
  IF s = None THEN NA
  ELSE LET s1 == replace_emojis_with_space(s)
           s2 == strip(strip_trailing_commas(s1))
           s3 == lower(remove_all_commas(s2))
       IN  IF s3 = <<"t","r","u","e">> THEN <<"t","r","u","e">>
           ELSE IF s3 = <<"f","a","l","s","e">> THEN <<"f","a","l","s","e">>
           ELSE NA

----------------------------------------------------------------------------
(* The structured-list parser *)

\* sep.join(parts)
join(sep, parts) ==
  LET F[i \in 0..Len(parts)] ==
        IF i = 0 THEN <<>>
        ELSE IF i = 1 THEN parts[1]
        ELSE F[i-1] \o sep \o parts[i]
  IN  F[Len(parts)]

RECURSIVE SkipSpaces(_, _)
\* the index of the first character at or after i that is no white space
SkipSpaces(s, i) ==
  IF i <= Len(s) /\ IsSpace(s[i]) THEN SkipSpaces(s, i + 1) ELSE i

\* the index of the first quote after index i, or 0
NextQuote(s, i) ==
  IF \E j \in (i+1)..Len(s) : s[j] = "'"
    THEN CHOOSE j \in (i+1)..Len(s) : s[j] = "'" /\ \A k \in (i+1)..(j-1) : s[k] # "'"
    ELSE 0

RECURSIVE Tokenize(_, _, _)
\* The tokens of a Python literal from index i on: a bracket, brace, colon or
\* comma is <<ch>>, a single-quoted string without escapes is <<"str", text>>,
\* and anything else ends the token list with <<"error">>.
Tokenize(s, i, acc) ==
  IF i > Len(s) THEN acc
  ELSE IF IsSpace(s[i]) THEN Tokenize(s, i + 1, acc)
  ELSE IF s[i] \in {"[", "]", "{", "}", ":", ","}
    THEN Tokenize(s, i + 1, Append(acc, <<s[i]>>))
  ELSE IF s[i] = "'" /\ NextQuote(s, i) # 0
          /\ \A k \in (i+1)..(NextQuote(s, i) - 1) : s[k] # "\\"
    THEN Tokenize(s, NextQuote(s, i) + 1,
                  Append(acc, <<"str", SubSeq(s, i + 1, NextQuote(s, i) - 1)>>))
  ELSE Append(acc, <<"error">>)

\* the index of the first closing brace after token i, or 0
NextClose(toks, i) ==
  IF \E j \in (i+1)..Len(toks) : toks[j] = <<"}">>
    THEN CHOOSE j \in (i+1)..Len(toks) :
           toks[j] = <<"}">> /\ \A k \in (i+1)..(j-1) : toks[k] # <<"}">>
    ELSE 0

RECURSIVE FoldDicts(_, _, _)
\* the tokens with every brace pair folded into one token <<"dict", tokens between>>
FoldDicts(toks, i, acc) ==
  IF i > Len(toks) THEN acc
  ELSE IF toks[i] = <<"{">>
    THEN IF NextClose(toks, i) = 0 THEN Append(acc, <<"error">>)
         ELSE FoldDicts(toks, NextClose(toks, i) + 1,
                Append(acc, <<"dict", SubSeq(toks, i + 1, NextClose(toks, i) - 1)>>))
  ELSE FoldDicts(toks, i + 1, Append(acc, toks[i]))

\* a comma-separated token list without its optional trailing comma
DropTrailingComma(toks) ==
  IF toks # <<>> /\ toks[Len(toks)] = <<",">> THEN SubSeq(toks, 1, Len(toks) - 1)
  ELSE toks

IsStrToken(t) == Len(t) = 2 /\ t[1] = "str"

\* the tokens between two braces are 'key': 'value' entries
EntriesOk(seg) ==
  LET body == DropTrailingComma(seg)
  IN  \/ seg = <<>>
      \/ /\ Len(body) % 4 = 3
         /\ \A n \in 1..Len(body) :
              CASE n % 4 = 2 -> body[n] = <<":">>
                [] n % 4 = 0 -> body[n] = <<",">>
                [] OTHER     -> IsStrToken(body[n])

\* the entries of a dict display, as <<key, value>> pairs in source order
Entries(seg) ==
  LET body == DropTrailingComma(seg)
  IN  [n \in 1..((Len(body) + 1) \div 4) |-> <<body[4*n - 3][2], body[4*n - 1][2]>>]

\* a list item: a string, or a dict display of string entries
ItemOk(t) ==
  \/ IsStrToken(t)
  \/ Len(t) = 2 /\ t[1] = "dict" /\ EntriesOk(t[2])

\* the folded tokens are a list display of strings and dict displays
ListOk(toks) ==
  /\ Len(toks) >= 2
  /\ toks[1] = <<"[">>
  /\ toks[Len(toks)] = <<"]">>
  /\ LET inner == SubSeq(toks, 2, Len(toks) - 1)
         body == DropTrailingComma(inner)
     IN  \/ inner = <<>>
         \/ /\ Len(body) % 2 = 1
            /\ \A n \in 1..Len(body) :
                 IF n % 2 = 0 THEN body[n] = <<",">> ELSE ItemOk(body[n])

\* the items of a list display
Items(toks) ==
  LET body == DropTrailingComma(SubSeq(toks, 2, Len(toks) - 1))
  IN  [n \in 1..((Len(body) + 1) \div 2) |->
         IF body[2*n - 1][1] = "dict"
           THEN [isdict |-> TRUE, entries |-> Entries(body[2*n - 1][2])]
           ELSE [isdict |-> FALSE, entries |-> <<>>]]

\* ast.literal_eval for the literals of the model: a list display of dict
\* displays and strings that spans the whole text.  <<TRUE, items>> when the
\* text is such a list, <<FALSE, <<>>>> when literal_eval raises or returns
\* something that is no list.  Numbers, names, nested containers, double
\* quotes, string prefixes and escapes are outside the texts of the model
\* (InputLines, Inputs), for which this agrees with Python.
literal_eval(s) ==
  LET toks == FoldDicts(Tokenize(s, 1, <<>>), 1, <<>>)
  IN  IF ListOk(toks) THEN <<TRUE, Items(toks)>> ELSE <<FALSE, <<>>>>

image == <<"i","m","a","g","e">>

\* "image" in item
HasImage(item) ==
  item.isdict /\ \E n \in 1..Len(item.entries) : item.entries[n][1] = image

\* item["image"]: the last entry of that key
GetImage(item) ==
  LET hits == {n \in 1..Len(item.entries) : item.entries[n][1] = image}
  IN  item.entries[CHOOSE n \in hits : \A m \in hits : n >= m][2]

\* re.search(r"(\[.*\])", s, flags=re.DOTALL): the text from the first "[" to
\* the last "]", or None
SearchBrackets(s) ==
  LET opens  == {i \in 1..Len(s) : s[i] = "["}
      closes == {i \in 1..Len(s) : s[i] = "]"}
      a == CHOOSE i \in opens : \A j \in opens : i <= j
      b == CHOOSE i \in closes : \A j \in closes : i >= j
  IN  IF opens = {} \/ closes = {} THEN None
      ELSE IF a < b THEN SubSeq(s, a, b) ELSE None

\* the text 'image': of the fallback pattern
ImagePattern == <<"'">> \o image \o <<"'", ":">>

\* r"'image':\s*'([^']+)'" matches at index i: the index of the quote that
\* opens the group, or 0
MatchImage(s, i) ==
  LET j == SkipSpaces(s, i + Len(ImagePattern))
  IN  IF /\ i + Len(ImagePattern) <= Len(s)
         /\ SubSeq(s, i, i + Len(ImagePattern) - 1) = ImagePattern
         /\ j <= Len(s) /\ s[j] = "'"
         /\ NextQuote(s, j) > j + 1
        THEN j ELSE 0

RECURSIVE FindImages(_, _, _)
\* re.findall(r"'image':\s*'([^']+)'", s) from index i on
FindImages(s, i, acc) ==
  IF i > Len(s) THEN acc
  ELSE IF MatchImage(s, i) # 0
    THEN FindImages(s, NextQuote(s, MatchImage(s, i)) + 1,
           Append(acc, SubSeq(s, MatchImage(s, i) + 1, NextQuote(s, MatchImage(s, i)) - 1)))
    ELSE FindImages(s, i + 1, acc)

\* the sanitized values of a list of raw image texts, without the sentinels
SanitizedImages(raw) ==
  SelectSeq([n \in 1..Len(raw) |-> sanitize_value(raw[n])], LAMBDA v : v # NA)

parse_story_pin_media(s) ==
  IF s = None THEN NA
  ELSE LET s1 == replace_emojis_with_space(s)
           s2 == strip(strip_trailing_commas(s1))
           m == SearchBrackets(s2)
           data == IF m = None THEN <<FALSE, <<>>>> ELSE literal_eval(m)
           withImage == SelectSeq(data[2], HasImage)
           images == SanitizedImages([n \in 1..Len(withImage) |-> GetImage(withImage[n])])
           imgs == SanitizedImages(FindImages(s2, 1, <<>>))
       IN  IF lower(s2) = no_data THEN NA
           ELSE IF data[1] THEN (IF images # <<>> THEN join(<<"|">>, images) ELSE NA)
           ELSE IF imgs # <<>> THEN join(<<"|">>, imgs)
           ELSE NA

----------------------------------------------------------------------------
(* The field schema *)

url == <<"u","r","l">>

title == <<"t","i","t","l","e">>

details == <<"d","e","t","a","i","l","s">>

story_pin_media == <<"s","t","o","r","y","_","p","i","n","_","m","e","d","i","a">>

\* the label table of normalize_field_name: <<raw label, CSV column>>
mapping ==
  {  << url, url >>,
     << title, title >>,
     << details, details >>,
     << image, image >>,
     << <<"i","s"," ","n","a","t","i","v","e">>,
        <<"i","s","_","n","a","t","i","v","e">> >>,
     << <<"b","o","a","r","d"," ","i","d">>,
        <<"b","o","a","r","d","_","i","d">> >>,
     << <<"b","o","a","r","d"," ","n","a","m","e">>,
        <<"b","o","a","r","d","_","n","a","m","e">> >>,
     << <<"i","s"," ","v","i","d","e","o">>,
        <<"i","s","_","v","i","d","e","o">> >>,
     << <<"i","p"," ","a","d","d","r","e","s","s">>,
        <<"i","p","_","a","d","d","r","e","s","s">> >>,
     << <<"u","s","e","r","n","a","m","e">>,
        <<"u","s","e","r","n","a","m","e">> >>,
     << <<"a","l","t"," ","t","e","x","t">>,
        <<"a","l","t","_","t","e","x","t">> >>,
     << <<"c","a","n","o","n","i","c","a","l"," ","l","i","n","k">>,
        <<"c","a","n","o","n","i","c","a","l","_","l","i","n","k">> >>,
     << <<"s","t","o","r","y"," ","p","i","n"," ","m","e","d","i","a">>,
        story_pin_media >>,
     << <<"v","i","d","e","o">>,
        <<"v","i","d","e","o">> >>,
     << <<"c","r","e","a","t","e","d"," ","a","t">>,
        <<"c","r","e","a","t","e","d","_","a","t">> >>,
     << <<"a","l","i","v","e">>,
        <<"a","l","i","v","e">> >>,
     << <<"i","s"," ","a"," ","r","e","p","i","n">>,
        <<"i","s","_","a","_","r","e","p","i","n">> >>,
     << <<"p","r","i","v","a","t","e">>,
        <<"p","r","i","v","a","t","e">> >>  }

\* a mutant of normalize_field_name: the label is returned, not its column
normalize_field_name_label(name) ==
  LET n == strip(lower(name))
  IN  IF \E e \in mapping : e[1] = n THEN n ELSE None

\* a mutant of normalize_field_name: an unknown label falls back to details
normalize_field_name_default(name) ==
  LET n == strip(lower(name))
  IN  IF \E e \in mapping : e[1] = n
        THEN (CHOOSE e \in mapping : e[1] = n)[2]
        ELSE details

\* mapping.get(name.lower().strip())
normalize_field_name(name) ==
  LET n == strip(lower(name))
  IN  IF \E e \in mapping : e[1] = n
        THEN (CHOOSE e \in mapping : e[1] = n)[2]
        ELSE None

CSV_FIELDS ==
  << url, title, details, image,
     <<"i","s","_","n","a","t","i","v","e">>,
     <<"b","o","a","r","d","_","i","d">>,
     <<"b","o","a","r","d","_","n","a","m","e">>,
     <<"i","s","_","v","i","d","e","o">>,
     <<"i","p","_","a","d","d","r","e","s","s">>,
     <<"u","s","e","r","n","a","m","e">>,
     <<"a","l","t","_","t","e","x","t">>,
     <<"c","a","n","o","n","i","c","a","l","_","l","i","n","k">>,
     story_pin_media,
     <<"v","i","d","e","o">>,
     <<"c","r","e","a","t","e","d","_","a","t">>,
     <<"a","l","i","v","e">>,
     <<"i","s","_","a","_","r","e","p","i","n">>,
     <<"p","r","i","v","a","t","e">>  >>

\* the columns parsed with parse_bool
BoolFields ==
  {  <<"i","s","_","n","a","t","i","v","e">>,
     <<"i","s","_","v","i","d","e","o">>,
     <<"a","l","i","v","e">>,
     <<"i","s","_","a","_","r","e","p","i","n">>,
     <<"p","r","i","v","a","t","e">>  }

----------------------------------------------------------------------------
(* Dicts and the heap *)

\* {f: "NA" for f in CSV_FIELDS}
NewRecord == [f \in {CSV_FIELDS[i] : i \in 1..Len(CSV_FIELDS)} |-> NA]

\* d[k] = v: the key is added when the dict does not have it
DictSet(d, k, v) == [x \in DOMAIN d \cup {k} |-> IF x = k THEN v ELSE d[x]]

\* d.get(k)
DictGet(d, k) == IF k \in DOMAIN d THEN d[k] ELSE None

\* a mutant of HasUrl: any column other than "NA" counts as evidence
HasUrl_any(d) == \E f \in DOMAIN d : d[f] # NA

\* current.get("url") and current["url"] != "NA"
HasUrl(d) ==
  /\ DictGet(d, url) # None
  /\ DictGet(d, url) # <<>>
  /\ d[url] # NA

\* a mutant of NewRecordRef: the dict of current is cleared and used again
NewRecordRef_reuse(h, cur) == cur

\* the reference of the dict that the rebinding of current allocates: a new
\* object, never one that records holds
NewRecordRef(h, cur) == Len(h) + 1

\* the heap with the dict d stored at reference r
HeapPut(h, r, d) == IF r = Len(h) + 1 THEN Append(h, d) ELSE [h EXCEPT ![r] = d]

----------------------------------------------------------------------------
(* The parse loop *)

\* s.startswith(p)
startswith(s, p) == Len(s) >= Len(p) /\ SubSeq(s, 1, Len(p)) = p

\* a mutant of IsUrlLine: only https:// starts a record
IsUrlLine_https(line) == startswith(line, <<"h","t","t","p","s",":","/","/">>)

\* line.startswith("http://") or line.startswith("https://")
IsUrlLine(line) ==
  \/ startswith(line, <<"h","t","t","p",":","/","/">>)
  \/ startswith(line, <<"h","t","t","p","s",":","/","/">>)

\* ":" in line
HasColon(line) == \E i \in 1..Len(line) : line[i] = ":"

\* line.split(":", 1), both parts stripped
SplitKeyVal(line) ==
  LET c == CHOOSE i \in 1..Len(line) :
             line[i] = ":" /\ \A j \in 1..(i-1) : line[j] # ":"
  IN  <<strip(SubSeq(line, 1, c - 1)), strip(SubSeq(line, c + 1, Len(line)))>>

\* the parser that the column selects
FieldValue(csv_key, val) ==
  IF csv_key \in BoolFields THEN parse_bool(val)
  ELSE IF csv_key = story_pin_media THEN parse_story_pin_media(val)
  ELSE sanitize_value(val)

\* the longest input, in lines
MaxLines == 3

\* the lines an input is made of
InputLines ==
  {  <<>>,
     <<"h","t","t","p","s",":","/","/","a">>,
     <<" ","h","t","t","p",":","/","/","b",",","c">>,
     <<"t","i","t","l","e",":"," ","T","1">>,
     <<"T","i","t","l","e"," ",":"," ","T","2",",">>,
     <<"u","r","l",":"," ","x">>,
     <<"u","r","l",":"," ","N","o"," ","d","a","t","a">>,
     <<"d","e","t","a","i","l","s",":"," ","d","1">>,
     <<"\t","m","o","r","e"," ","t","e","x","t">>,
     <<"f","o","o",":"," ","b","a","r">>,
     <<"p","r","i","v","a","t","e",":"," ","F","A","L","S","E",",">>,
     <<"s","t","o","r","y"," ","p","i","n"," ","m","e","d","i","a",":"," ",
       "[","{","'","i","m","a","g","e","'",":"," ","'","a","'","}",","," ",
       "{","'","i","m","a","g","e","'",":"," ","'","b",",","U+1F44D","c","'","}","]">>  }

\* f.read().strip().splitlines(): the text is stripped as a whole, so its
\* first line is not blank and starts with no white space
CanRead(raw) ==
  /\ pc = "loop"
  /\ Len(lines) < MaxLines
  /\ lines = <<>> => (raw # <<>> /\ ~IsSpace(raw[1]))

\* a blank line: continue
BlankLine(raw) ==
  /\ CanRead(raw)
  /\ strip(raw) = <<>>
  /\ lines' = Append(lines, raw)
  /\ UNCHANGED <<heap, current, records, pc, fnVars>>

\* a URL line starts a new record, after pushing the previous one if it has a URL
UrlLine(raw) ==
  LET line == strip(raw)
      r == NewRecordRef(heap, current)
  IN  /\ CanRead(raw)
      /\ line # <<>>
      /\ IsUrlLine(line)
      /\ lines' = Append(lines, raw)
      /\ IF HasUrl(heap[current])
           THEN /\ records' = Append(records, current)
                /\ current' = r
                /\ heap' = HeapPut(heap, r, DictSet(NewRecord, url, sanitize_value(line)))
           ELSE /\ heap' = [heap EXCEPT ![current] = DictSet(@, url, sanitize_value(line))]
                /\ UNCHANGED <<current, records>>
      /\ UNCHANGED <<pc, fnVars>>

\* a "Key: Value" line whose label the table does not have: continue
UnknownLabelLine(raw) ==
  LET line == strip(raw)
  IN  /\ CanRead(raw)
      /\ line # <<>>
      /\ ~IsUrlLine(line)
      /\ HasColon(line)
      /\ normalize_field_name(SplitKeyVal(line)[1]) \in {None, <<>>}
      /\ lines' = Append(lines, raw)
      /\ UNCHANGED <<heap, current, records, pc, fnVars>>

\* a "Key: Value" line of a known label: the column gets the parsed value
KeyValueLine(raw) ==
  LET line == strip(raw)
      kv == SplitKeyVal(line)
      csv_key == normalize_field_name(kv[1])
  IN  /\ CanRead(raw)
      /\ line # <<>>
      /\ ~IsUrlLine(line)
      /\ HasColon(line)
      /\ csv_key \notin {None, <<>>}
      /\ lines' = Append(lines, raw)
      /\ heap' = [heap EXCEPT ![current] = DictSet(@, csv_key, FieldValue(csv_key, kv[2]))]
      /\ UNCHANGED <<current, records, pc, fnVars>>

\* any other line: the loop body ends without touching the record
OtherLine(raw) ==
  LET line == strip(raw)
  IN  /\ CanRead(raw)
      /\ line # <<>>
      /\ ~IsUrlLine(line)
      /\ ~HasColon(line)
      /\ lines' = Append(lines, raw)
      /\ UNCHANGED <<heap, current, records, pc, fnVars>>

\* after the last line (which ends with no white space): push the final
\* record if it has a URL
EndOfInput ==
  /\ pc = "loop"
  /\ lines # <<>> =>
       LET last == lines[Len(lines)]
       IN  last # <<>> /\ ~IsSpace(last[Len(last)])
  /\ records' = IF HasUrl(heap[current]) THEN Append(records, current) ELSE records
  /\ pc' = "done"
  /\ UNCHANGED <<lines, heap, current, fnVars>>

Init ==
  /\ lines = <<>>
  /\ heap = <<NewRecord>>
  /\ current = 1
  /\ records = <<>>
  /\ pc = "loop"
  /\ arg = None
  /\ ret = None
  /\ prev = None

Next ==
  \/ \E raw \in InputLines :
       \/ BlankLine(raw)
       \/ UrlLine(raw)
       \/ UnknownLabelLine(raw)
       \/ KeyValueLine(raw)
       \/ OtherLine(raw)
  \/ EndOfInput

Spec == Init /\ [][Next]_vars

----------------------------------------------------------------------------
(* The sanitizers and parsers called on their own *)

\* the longest string of ShortChars among the arguments
MaxLen == 3

\* how many characters of EditChars are inserted into a seed
MaxEdits == 1

ShortChars == {"a", "N", " ", ",", "\t", "U+2603"}

EditChars == {" ", ",", "x", "U+1F44D"}

Seeds ==
  {  <<>>,
     <<"n","o"," ","d","a","t","a">>,
     <<"N","o"," ","D","a","t","a">>,
     <<"t","r","u","e">>,
     <<"T","r","u","e">>,
     <<"f","a","l","s","e">>,
     <<"F","A","L","S","E",","," ">>,
     <<"a"," ","b">>,
     <<"[","{","'","i","m","a","g","e","'",":"," ","'","a","'","}",","," ",
       "{","'","i","m","a","g","e","'",":","'","b","'","}","]">>  }

RECURSIVE ShortStrings(_)
\* the strings of at most n characters of ShortChars
ShortStrings(n) ==
  IF n = 0 THEN {<<>>}
  ELSE ShortStrings(n - 1)
         \cup {Append(x, c) : x \in {y \in ShortStrings(n - 1) : Len(y) = n - 1},
                              c \in ShortChars}

RECURSIVE Edited(_, _)
\* the strings of S with at most n characters of EditChars inserted
Edited(S, n) ==
  IF n = 0 THEN S
  ELSE Edited(S \cup UNION {{SubSeq(x, 1, i) \o <<c>> \o SubSeq(x, i + 1, Len(x)) :
                               i \in 0..Len(x), c \in EditChars} : x \in S},
              n - 1)

\* the arguments the functions are called with
Inputs == {None} \cup ShortStrings(MaxLen) \cup Edited(Seeds, MaxEdits)

CallSanitizeValue ==
  /\ pc = "call"
  /\ ret' = sanitize_value(arg)
  /\ pc' = "sanitize_value"
  /\ UNCHANGED <<arg, prev, loopVars>>

\* sanitize_value on its own result
CallSanitizeValueAgain ==
  /\ pc = "sanitize_value"
  /\ prev' = ret
  /\ ret' = sanitize_value(ret)
  /\ pc' = "sanitize_value_twice"
  /\ UNCHANGED <<arg, loopVars>>

CallParseBool ==
  /\ pc = "call"
  /\ ret' = parse_bool(arg)
  /\ pc' = "parse_bool"
  /\ UNCHANGED <<arg, prev, loopVars>>

CallParseStoryPinMedia ==
  /\ pc = "call"
  /\ ret' = parse_story_pin_media(arg)
  /\ pc' = "parse_story_pin_media"
  /\ UNCHANGED <<arg, prev, loopVars>>

InitFn ==
  /\ lines = <<>>
  /\ heap = <<NewRecord>>
  /\ current = 1
  /\ records = <<>>
  /\ pc = "call"
  /\ arg \in Inputs
  /\ ret = None
  /\ prev = None

NextFn ==
  \/ CallSanitizeValue
  \/ CallSanitizeValueAgain
  \/ CallParseBool
  \/ CallParseStoryPinMedia

SpecFn == InitFn /\ [][NextFn]_vars

\* the script and the functions called on their own, side by side
InitAll == Init \/ InitFn

NextAll == Next \/ NextFn

SpecAll == InitAll /\ [][NextAll]_vars

----------------------------------------------------------------------------
(* Properties *)

FieldSet == {CSV_FIELDS[i] : i \in 1..Len(CSV_FIELDS)}

\* the references of the Pending Record and of the emitted records
Live == {current} \cup {records[i] : i \in 1..Len(records)}

InScript == pc \in {"loop", "done"}

\* the line starts, once stripped, with http:// or https://
IsBoundary(raw) ==
  \/ startswith(strip(raw), <<"h","t","t","p",":","/","/">>)
  \/ startswith(strip(raw), <<"h","t","t","p","s",":","/","/">>)

\* the line is a key: value line: not blank, no boundary line, with a colon
IsKeyValue(raw) == strip(raw) # <<>> /\ ~IsBoundary(raw) /\ HasColon(strip(raw))

\* the label of a key: value line, lower-cased and trimmed
LabelOf(raw) == strip(lower(SplitKeyVal(strip(raw))[1]))

\* the labels of the schema's label table
Labels == {e[1] : e \in mapping}

\* the column that the line assigns, or None
ColumnOf(raw) ==
  IF IsBoundary(raw) THEN url
  ELSE IF IsKeyValue(raw) /\ LabelOf(raw) \in Labels
    THEN (CHOOSE e \in mapping : e[1] = LabelOf(raw))[2]
  ELSE None

\* the columns that the lines processed so far assign
AssignedColumns == {ColumnOf(lines[i]) : i \in 1..Len(lines)}

\* the step processes one more input line
ReadsLine == pc = "loop" /\ pc' = "loop" /\ Len(lines') = Len(lines) + 1

LastLine == lines[Len(lines)]

\* C1: the Pending Record and every emitted record have exactly the 18 keys of
\* CSV_FIELDS at every step, and a column that no processed line assigns
\* holds "NA".
C1_SchemaKeys ==
  InScript =>
    LET unassigned == FieldSet \ AssignedColumns
    IN  \A r \in Live :
          /\ DOMAIN heap[r] = FieldSet
          /\ Cardinality(DOMAIN heap[r]) = 18
          /\ \A f \in unassigned : heap[r][f] = NA

\* C1 witness: an emitted record after a URL line, a key: value line and a
\* dropped line, with an assigned and a never assigned column
C1_Witness ==
  /\ pc = "done"
  /\ Len(records) = 1
  /\ \E i \in 1..Len(lines) : ~IsBoundary(lines[i]) /\ ~IsKeyValue(lines[i])
  /\ heap[records[1]][url] # NA
  /\ heap[records[1]][title] # NA
  /\ heap[records[1]][details] = NA

\* the string has no comma and no emoji-like character
Clean(s) == \A i \in 1..Len(s) : s[i] # "," /\ ~is_emoji_char(s[i])

\* C2: sanitize_value returns a string without comma and without emoji-like
\* character, and so no value of the Pending Record or of an emitted record
\* has one, the url, the booleans and the pipe-joined story_pin_media included.
C2_NoCommaNoEmoji ==
  /\ pc \in {"sanitize_value", "sanitize_value_twice", "parse_story_pin_media"} => Clean(ret)
  /\ InScript => \A r \in Live : \A f \in DOMAIN heap[r] : Clean(heap[r][f])

\* C2 witness: an emitted record whose url line had a comma and whose
\* story_pin_media line had a comma and an emoji
C2_Witness ==
  /\ pc = "done"
  /\ Len(records) = 1
  /\ heap[records[1]][url] = <<"h","t","t","p",":","/","/","b","c">>
  /\ heap[records[1]][story_pin_media] = <<"a","|","b"," ","c">>

\* no line of the input sets url to a value other than the sentinel
NeverSetsUrl ==
  \A i \in 1..Len(lines) :
    /\ ~IsBoundary(lines[i])
    /\ (IsKeyValue(lines[i]) /\ LabelOf(lines[i]) = url)
         => sanitize_value(SplitKeyVal(strip(lines[i]))[2]) = NA

\* C3: at a URL boundary line and at end of input the Pending Record is
\* appended to the output if and only if its url is not "NA"; no other step
\* appends; every record of the output has a url other than "NA"; an input
\* that never sets url to a non-sentinel value ends with an empty output.
C3_EmitIffUrl ==
  [][ /\ ((ReadsLine /\ IsBoundary(lines'[Len(lines')])) \/ (pc = "loop" /\ pc' = "done"))
         => records' = IF heap[current][url] # NA THEN Append(records, current)
                       ELSE records
      /\ (ReadsLine /\ ~IsBoundary(lines'[Len(lines')])) => records' = records
      /\ \A i \in 1..Len(records') : heap'[records'[i]][url] # NA
      /\ (pc' = "done" /\ NeverSetsUrl) => records' = <<>>
    ]_vars

\* C3 witness: at end of input one record is in the output and the Pending
\* Record, whose url is "NA" again, was not emitted
C3_Witness ==
  /\ pc = "done"
  /\ Len(records) = 1
  /\ heap[current][url] = NA
  /\ current \notin {records[i] : i \in 1..Len(records)}

\* the boundary lines of the input, in input order
BoundaryLines == SelectSeq(lines, IsBoundary)

\* the output matches the boundary lines one to one and in order
MatchesBoundaryLines ==
  /\ Len(records) = Len(BoundaryLines)
  /\ \A i \in 1..Len(records) :
       i <= Len(BoundaryLines) => heap[records[i]][url] = sanitize_value(BoundaryLines[i])

\* C4 as stated: for every input the emitted records match, one to one and in
\* input order, the lines that start with http:// or https://, and the url of
\* the i-th record is sanitize_value of the i-th such line.
C4_Original == pc = "done" => MatchesBoundaryLines

\* no key: value line of the input has the label url
NoUrlLabel ==
  \A i \in 1..Len(lines) : IsKeyValue(lines[i]) => LabelOf(lines[i]) # url

\* C4 amended: for every input in which no key: value line has the label url,
\* the emitted records match, one to one and in input order, the lines that
\* start with http:// or https://, and the url of the i-th record is
\* sanitize_value of the i-th such line.
C4_Amended == (pc = "done" /\ NoUrlLabel) => MatchesBoundaryLines

\* C4 witness: two boundary lines with a title line between them have made
\* two records, the first with the title
C4_Witness ==
  /\ pc = "done"
  /\ NoUrlLabel
  /\ Len(records) = 2
  /\ heap[records[1]][url] = <<"h","t","t","p","s",":","/","/","a">>
  /\ heap[records[1]][title] = <<"T","1">>
  /\ heap[records[2]][url] = <<"h","t","t","p",":","/","/","b","c">>
  /\ heap[records[2]][title] = NA

\* C5: sanitize_value(sanitize_value(x)) = sanitize_value(x) for every x
C5_Idempotent == pc = "sanitize_value_twice" => ret = prev

\* the line is a free-text line: not blank, no boundary line, no colon
IsOther(raw) == strip(raw) # <<>> /\ ~IsBoundary(raw) /\ ~HasColon(strip(raw))

\* C6: a free-text line processed while details is not "NA" is appended to
\* details, space-joined and sanitized again as a whole; while details is "NA"
\* the line is dropped and the Pending Record stays as it is.
C6_Continuation ==
  [][ (ReadsLine /\ IsOther(lines'[Len(lines')])) =>
        IF heap[current][details] # NA
          THEN heap'[current'][details] =
                 sanitize_value(heap[current][details] \o <<" ">>
                                  \o sanitize_value(lines'[Len(lines')]))
          ELSE current' = current /\ heap'[current'] = heap[current]
    ]_vars

\* C7: a key: value line whose label, lower-cased and trimmed, is not in the
\* label table leaves the Pending Record and the output as they are, and the
\* loop goes on.
C7_UnknownLabelSkipped ==
  [][ (pc = "loop" /\ Len(lines') = Len(lines) + 1
         /\ IsKeyValue(lines'[Len(lines')])
         /\ LabelOf(lines'[Len(lines')]) \notin Labels)
        => /\ pc' = "loop"
           /\ current' = current
           /\ records' = records
           /\ heap' = heap
    ]_vars

\* C7 witness: a line of an unknown label was the last one processed, with a
\* Pending Record that holds a url and a title
C7_Witness ==
  /\ pc = "loop"
  /\ lines # <<>>
  /\ IsKeyValue(LastLine)
  /\ LabelOf(LastLine) \notin Labels
  /\ heap[current][url] # NA
  /\ heap[current][title] # NA

\* x is: emoji and white space, then word in any casing with commas anywhere
\* in it, then commas, white space and emoji
SpellsWord(x, word) ==
  \E a \in 1..Len(x) : \E b \in a..Len(x) :
    /\ \A i \in 1..(a-1) : IsSpace(x[i]) \/ is_emoji_char(x[i])
    /\ \A i \in (b+1)..Len(x) : IsSpace(x[i]) \/ is_emoji_char(x[i]) \/ x[i] = ","
    /\ \A i \in a..b : ~IsSpace(x[i]) /\ ~is_emoji_char(x[i])
    /\ lower(SelectSeq(SubSeq(x, a, b), LAMBDA ch : ch # ",")) = word

TrueStr == <<"t","r","u","e">>

FalseStr == <<"f","a","l","s","e">>

\* C8: parse_bool returns "true", "false" or "NA"; "true" (resp. "false")
\* exactly when the argument spells that word once emoji, surrounding white
\* space, trailing commas and spaces and all commas are gone, in any casing;
\* "NA" for everything else, absent, empty and "No data" included.
C8_ParseBool ==
  pc = "parse_bool" =>
    /\ ret \in {TrueStr, FalseStr, NA}
    /\ ret = TrueStr <=> (arg # None /\ SpellsWord(arg, TrueStr))
    /\ ret = FalseStr <=> (arg # None /\ SpellsWord(arg, FalseStr))
    /\ arg = <<"T","r","u","e">> => ret = TrueStr
    /\ arg = <<"F","A","L","S","E",","," ">> => ret = FalseStr
    /\ arg \in {None, <<>>, <<"N","o"," ","D","a","t","a">>} => ret = NA

\* C8 witness: parse_bool has returned "false" for "FALSE, " with an emoji
\* in front
C8_Witness ==
  /\ pc = "parse_bool"
  /\ arg = <<"U+1F44D","F","A","L","S","E",","," ">>
  /\ ret = FalseStr

\* C9: right after a boundary line is processed the Pending Record is fresh:
\* its url is the sanitized line and every other column is "NA".
C9_FreshAfterBoundary ==
  (pc = "loop" /\ lines # <<>> /\ IsBoundary(LastLine)) =>
    heap[current] =
      [f \in FieldSet |-> IF f = url THEN sanitize_value(LastLine) ELSE NA]

\* C10: the output is append-only and its records never change: a step keeps
\* every record of the output at its place with all its values, and the
\* Pending Record that the loop goes on to fill is none of them.
C10_AppendOnly ==
  [][ /\ Len(records') >= Len(records)
      /\ \A i \in 1..Len(records) :
           /\ records'[i] = records[i]
           /\ heap'[records'[i]] = heap[records[i]]
      /\ pc' = "loop" => current' \notin {records'[i] : i \in 1..Len(records')}
    ]_vars

\* C10 witness: a record is in the output, and the Pending Record started
\* after it has a title that the emitted record does not have
C10_Witness ==
  /\ pc = "loop"
  /\ Len(records) = 1
  /\ heap[current][title] # NA
  /\ heap[records[1]][title] = NA
  /\ heap[records[1]][url] # NA

====
